---- MODULE Spec2Model ----
(***************************************************************************)
(* Moderation workflow of the price tracker backend.                       *)
(*                                                                         *)
(* The relational store holds users and notifications, the document store  *)
(* holds price entries and reports.  The handlers are coroutines on one    *)
(* event loop: a handler runs without interruption from one `await` to the *)
(* next (the SQLAlchemy session is synchronous), and other handlers may    *)
(* run while it is suspended in an `await` on the document store.  Every   *)
(* handler is therefore one action per stretch between two awaits.         *)
(***************************************************************************)
EXTENDS Bags, FiniteSets, Integers, Sequences, TLC

\* ------------------------------------------------------------------ bounds
MaxCmds    == 4      \* resolution commands issued one after the other (Spec)
NumWorkers == 2      \* requests in flight at the same time (SpecConc)
ConcCmds   == 2      \* resolution commands issued with overlap (SpecConc)
AcctCmds   == 4      \* submissions, reports, resolutions, broadcasts (SpecAcct)
LedgerCmds == 3      \* submissions and favorites (SpecLedger)

\* --------------------------------------------------------------- constants
BanThreshold == 3
BanDays      == 30           \* timedelta(days=30)
NullDate     == -1           \* updated_at IS NULL

ReportIds == {1, 2}          \* documents the reports collection may hold
UserIds   == {1, 2}          \* rows of the users table
GhostUser == 3               \* an id that has no row in the users table
EntryIds  == {1, 2}          \* documents of the price_entries collection
ShopIds   == {1, 2}          \* rows of the shops table

valid_statuses == {"PENDING", "REVIEWED", "DISMISSED"}
\* the status key of a create_report payload (the schema's default)
CreateStatuses == {"PENDING"}
\* The "action" key of a resolution payload is one of the three the handler
\* compares against, "none" for an absent key, or some other string.
\* The resolution payloads {status, action}: the three the operator UI sends
\* for its buttons, a status-only update to each status, and one whose
\* status is not a valid one.
ResolutionInputs ==
  { [status |-> "DISMISSED", action |-> "dismiss"],
    [status |-> "REVIEWED",  action |-> "warning"],
    [status |-> "REVIEWED",  action |-> "ban"],
    [status |-> "PENDING",   action |-> "none"],
    [status |-> "REVIEWED",  action |-> "none"],
    [status |-> "DISMISSED", action |-> "none"],
    [status |-> "BOGUS",     action |-> "warning"] }

\* a payload whose action is none of the three
InvalidActionInputs == { [status |-> "REVIEWED", action |-> "suspend"] }

VARIABLES
  users,          \* relational store: users table, id -> row
  notifications,  \* relational store: notifications table, a bag of rows
  ledger,         \* document store: price_entries collection
  reports,        \* document store: reports collection
  workers,        \* the requests in flight: position and local variables
  budget,         \* resolution commands that may still be issued
  warned,         \* history: per user, warning escalations committed
  direct_ban,     \* history: per user, BANNED by something else than the third warning
  user_commits,   \* history: per report, a user-side escalation was committed
  orphaned,       \* history: per report, a warning attempt failed after
                  \*          its user-side commit and before its report write
  notify_failed,  \* history: per report, a resolution of it ended when
                  \*          its notification could not be created
  log,            \* the records the handlers wrote to the application log,
                  \* a bag
  fav_watch       \* relational store: fav_watch table, a set of rows

vars == <<users, notifications, ledger, reports, workers, budget,
          warned, direct_ban, user_commits, orphaned, notify_failed, log, fav_watch>>

history == <<warned, direct_ban, user_commits, orphaned, notify_failed>>

\* ------------------------------------------------------------------ records
NoEntry == [found |-> FALSE, submittedBy |-> 0]

\* an id of the price_entries collection that holds no document
NoDocument == [exists |-> FALSE, price |-> 0, submittedBy |-> 0]

NoReport == [exists |-> FALSE, priceEntryId |-> 0,
             status |-> "PENDING", action |-> "none"]

IdleWorker == [pc |-> "idle", rid |-> 0, peid |-> 0, new_status |-> "PENDING",
               action |-> "none", entry |-> NoEntry,
               wstatus |-> "PENDING", waction |-> "none",
               shopId |-> 0, submitted_by |-> 0, price |-> 0,
               caller |-> 0, code |-> "none", created |-> 0]

\* the handler has ended: the response that goes to the caller
Response(caller, code, created) ==
  [IdleWorker EXCEPT !.pc = "reply", !.caller = caller, !.code = code,
                     !.created = created]

Notification_Price(uid, title) ==
  [user_id |-> uid, title |-> title, category |-> "price"]

\* Notification(user_id=..., title=..., category=NotificationCategory.SYSTEM)
Notification(uid, title) ==
  [user_id |-> uid, title |-> title, category |-> "system"]

\* db.query(User).filter(User.id == user_id).first()
UserFound(uid) == uid \in UserIds /\ users[uid].exists

\* price_entry and "submittedBy" in price_entry
HasSubmitter(entry) == entry.found /\ entry.submittedBy # 0

\* collection.find_one({"_id": ...}) on price_entries
FindEntry(eid) ==
  IF eid \in EntryIds /\ ledger[eid].exists
  THEN [found |-> TRUE, submittedBy |-> ledger[eid].submittedBy]
  ELSE NoEntry

\* ------------------------------------------------------------------- Init
\* a fav_watch table in which user 2 watches shop 1 (item_id 0: no item)
OneWatcher == { [id |-> 1, user_id |-> 2, shop_id |-> 1, item_id |-> 0] }

\* The stores before any report exists.  Entry 1 was submitted by user 1;
\* entry 2 carries a submitter id that has no row in the users table (the
\* account was deleted, or the id came with the payload).
InitStores ==
  /\ notifications = EmptyBag
  /\ ledger = [e \in EntryIds |->
                [exists |-> TRUE, price |-> 1,
                 submittedBy |-> IF e = 1 THEN 1 ELSE GhostUser]]
  /\ reports = [r \in ReportIds |-> NoReport]
  /\ warned = [u \in UserIds |-> 0]
  /\ user_commits = [r \in ReportIds |-> FALSE]
  /\ orphaned = [r \in ReportIds |-> FALSE]
  /\ notify_failed = [r \in ReportIds |-> FALSE]
  /\ log = EmptyBag
  /\ fav_watch = OneWatcher

\* A row of the users table as register_user inserts it.  idle_days is the
\* time since updated_at in days, NullDate while updated_at is NULL (the
\* column has no default and is set by every UPDATE of the row).
NewUser == [exists |-> TRUE, role |-> "USER", status |-> "ACTIVE",
            warning_count |-> 0, idle_days |-> NullDate]

\* register_user takes the role from the payload
Registered(role) == [NewUser EXCEPT !.role = role]

\* session.commit() of a loaded row: an UPDATE is emitted only when a column
\* changed, and the UPDATE sets updated_at = now()
Flush(old, new) == IF new = old THEN old ELSE [new EXCEPT !.idle_days = 0]

\* One request at a time.
Init ==
  /\ InitStores
  /\ users = [u \in UserIds |->
                Registered(IF u = 1 THEN "CONTRIBUTOR" ELSE "USER")]
  /\ direct_ban = [u \in UserIds |-> FALSE]
  /\ workers = [w \in {1} |-> IdleWorker]
  /\ budget = MaxCmds

\* Resolution commands that overlap.  create_report has inserted two PENDING
\* reports against entry 1 and notified its submitter twice.  User 1 is
\* ACTIVE, or already BANNED with no warning (update_current_user accepts a
\* status).
InitConc ==
  /\ notifications = SetToBag({Notification(1, "Price Submission Reported")})
                       (+) SetToBag({Notification(1, "Price Submission Reported")})
  /\ ledger = [e \in EntryIds |->
                [exists |-> TRUE, price |-> 1,
                 submittedBy |-> IF e = 1 THEN 1 ELSE GhostUser]]
  /\ reports = [r \in ReportIds |-> [NoReport EXCEPT !.exists = TRUE,
                                                      !.priceEntryId = 1]]
  /\ warned = [u \in UserIds |-> 0]
  /\ user_commits = [r \in ReportIds |-> FALSE]
  /\ orphaned = [r \in ReportIds |-> FALSE]
  /\ notify_failed = [r \in ReportIds |-> FALSE]
  /\ log = EmptyBag
  /\ fav_watch = OneWatcher
  /\ \E st \in {"ACTIVE", "BANNED"} :
       /\ users = [u \in UserIds |->
                     IF u = 1
                     THEN Flush(Registered("CONTRIBUTOR"),
                                [Registered("CONTRIBUTOR") EXCEPT !.status = st])
                     ELSE NewUser]
       /\ direct_ban = [u \in UserIds |-> u = 1 /\ st = "BANNED"]
  /\ workers = [w \in 1..NumWorkers |-> IdleWorker]
  /\ budget = ConcCmds

\* The accounts and the ledger from the start: user 1 registered as a
\* CONTRIBUTOR and owns shop 1, user 2 registered with the default role and
\* watches shop 1; nothing was submitted or reported yet.
InitAcct ==
  /\ notifications = EmptyBag
  /\ ledger = [e \in EntryIds |-> NoDocument]
  /\ reports = [r \in ReportIds |-> NoReport]
  /\ warned = [u \in UserIds |-> 0]
  /\ user_commits = [r \in ReportIds |-> FALSE]
  /\ orphaned = [r \in ReportIds |-> FALSE]
  /\ notify_failed = [r \in ReportIds |-> FALSE]
  /\ log = EmptyBag
  /\ fav_watch = OneWatcher
  /\ users = [u \in UserIds |->
                Registered(IF u = 1 THEN "CONTRIBUTOR" ELSE "USER")]
  /\ direct_ban = [u \in UserIds |-> FALSE]
  /\ workers = [w \in {1} |-> IdleWorker]
  /\ budget = AcctCmds

\* --------------------------------------------------- update_report_status
ReachesBan_Above(count) == count > BanThreshold

\* user.warning_count >= 3
ReachesBan(count) == count >= BanThreshold

DismissOutcome_Reset(user) ==
  [user |-> [user EXCEPT !.warning_count = 0],
   status |-> "DISMISSED", action |-> "dismissed",
   title |-> "Report Dismissed", committed |-> FALSE]

\* The branch `user and action == "dismiss"`: no change to the user row.
DismissOutcome(user) ==
  [user |-> user, status |-> "DISMISSED", action |-> "dismissed",
   title |-> "Report Dismissed", committed |-> FALSE]

WarningOutcome_Stale(user) ==
  LET count == 0 + 1 IN
  IF ReachesBan(count)
  THEN [user |-> [user EXCEPT !.warning_count = count, !.status = "BANNED"],
        status |-> "REVIEWED", action |-> "banned",
        title |-> "Account Banned", committed |-> TRUE]
  ELSE [user |-> [user EXCEPT !.warning_count = count],
        status |-> "REVIEWED", action |-> "warned",
        title |-> "Warning Issued", committed |-> TRUE]

WarningOutcome_Uncommitted(user) ==
  LET count == user.warning_count + 1 IN
  IF ReachesBan(count)
  THEN [user |-> user, status |-> "REVIEWED", action |-> "banned",
        title |-> "Account Banned", committed |-> FALSE]
  ELSE [user |-> user, status |-> "REVIEWED", action |-> "warned",
        title |-> "Warning Issued", committed |-> FALSE]

\* The branch `user and action == "warning"`.
WarningOutcome(user) ==
  LET count == user.warning_count + 1 IN
  IF ReachesBan(count)
  THEN [user |-> [user EXCEPT !.warning_count = count, !.status = "BANNED"],
        status |-> "REVIEWED", action |-> "banned",
        title |-> "Account Banned", committed |-> TRUE]
  ELSE [user |-> [user EXCEPT !.warning_count = count],
        status |-> "REVIEWED", action |-> "warned",
        title |-> "Warning Issued", committed |-> TRUE]

BanOutcome_AtThreshold(user) ==
  [user |-> [user EXCEPT !.status = IF ReachesBan(user.warning_count)
                                    THEN "BANNED" ELSE user.status],
   status |-> "REVIEWED", action |-> "banned",
   title |-> "Account Banned", committed |-> TRUE]

\* The branch `user and action == "ban"`.
BanOutcome(user) ==
  [user |-> [user EXCEPT !.status = "BANNED"],
   status |-> "REVIEWED", action |-> "banned",
   title |-> "Account Banned", committed |-> TRUE]

EscalationOutcome(user, action) ==
  CASE action = "dismiss" -> DismissOutcome(user)
    [] action = "warning" -> WarningOutcome(user)
    [] action = "ban"     -> BanOutcome(user)

\* The handler takes one of the three branches only when the price entry
\* and its submitter resolve and the action is one of the three.
TakesBranch(entry, action) ==
  /\ HasSubmitter(entry)
  /\ UserFound(entry.submittedBy)
  /\ action \in {"dismiss", "warning", "ban"}

FallbackNotifications_Unchecked(new_status, entry) ==
  IF HasSubmitter(entry)
  THEN CASE new_status = "REVIEWED" ->
              SetToBag({Notification(entry.submittedBy, "Report Reviewed")})
         [] new_status = "DISMISSED" ->
              SetToBag({Notification(entry.submittedBy, "Report Dismissed")})
         [] OTHER -> EmptyBag
  ELSE EmptyBag

\* The notifications the fallback path creates after its report write.
FallbackNotifications(new_status, entry) ==
  IF HasSubmitter(entry) /\ UserFound(entry.submittedBy)
  THEN CASE new_status = "REVIEWED" ->
              SetToBag({Notification(entry.submittedBy, "Report Reviewed")})
         [] new_status = "DISMISSED" ->
              SetToBag({Notification(entry.submittedBy, "Report Dismissed")})
         [] OTHER -> EmptyBag
  ELSE EmptyBag

\* find_one on reports, the 404 and the status validation, up to the
\* find_one on price_entries.  The report document is used only for its
\* priceEntryId.
Resolve_FindReport(w, r, st, act) ==
  /\ workers[w].pc = "idle"
  /\ budget > 0
  /\ IF reports[r].exists /\ st \in valid_statuses
     THEN /\ workers' = [workers EXCEPT ![w] =
                          [IdleWorker EXCEPT !.pc = "find_entry", !.rid = r,
                                             !.peid = reports[r].priceEntryId,
                                             !.new_status = st, !.action = act]]
          /\ budget' = budget - 1
     ELSE \* 404 Report not found / 400 Invalid status
          UNCHANGED <<workers, budget>>
  /\ UNCHANGED <<users, notifications, ledger, reports, history, log, fav_watch>>

\* price_entries.find_one returns
Resolve_FindEntry(w) ==
  /\ workers[w].pc = "find_entry"
  /\ workers' = [workers EXCEPT ![w].pc = "escalate",
                                ![w].entry = FindEntry(workers[w].peid)]
  /\ UNCHANGED <<users, notifications, ledger, reports, budget, history, log, fav_watch>>

\* From the return of find_one on price_entries to the update_one on
\* reports: the user query, the user mutation and its commit, the
\* notification and its commit.  No await separates them.
Resolve_Escalate(w) ==
  LET me  == workers[w]
      uid == me.entry.submittedBy
  IN
  /\ me.pc = "escalate"
  /\ IF TakesBranch(me.entry, me.action)
     THEN LET out == EscalationOutcome(users[uid], me.action) IN
          /\ users' = [users EXCEPT ![uid] = Flush(users[uid], out.user)]
          /\ notifications' =
               notifications (+) SetToBag({Notification(uid, out.title)})
          /\ workers' = [workers EXCEPT ![w].pc = "write_report",
                                        ![w].wstatus = out.status,
                                        ![w].waction = out.action]
          /\ warned' = IF me.action = "warning"
                       THEN [warned EXCEPT ![uid] = @ + 1] ELSE warned
          /\ direct_ban' = IF me.action = "ban"
                           THEN [direct_ban EXCEPT ![uid] = TRUE]
                           ELSE direct_ban
          /\ user_commits' = IF out.committed
                             THEN [user_commits EXCEPT ![me.rid] = TRUE]
                             ELSE user_commits
     ELSE /\ workers' = [workers EXCEPT ![w].pc = "write_fallback",
                                        ![w].wstatus = me.new_status]
          /\ UNCHANGED <<users, notifications, warned, direct_ban,
                         user_commits>>
  /\ UNCHANGED <<ledger, reports, budget, orphaned, notify_failed, log, fav_watch>>

\* The commit of the notification row raises in one of the three branches
\* (the relational store fails, or the submitter's row was deleted in the
\* meantime).  Nothing catches the exception: the user-side commit before it
\* stays, the report is not written, the request ends with a 500.
Resolve_NotifyFails(w) ==
  LET me  == workers[w]
      uid == me.entry.submittedBy
      out == EscalationOutcome(users[uid], me.action)
  IN
  /\ me.pc = "escalate"
  /\ TakesBranch(me.entry, me.action)
  /\ users' = [users EXCEPT ![uid] = Flush(users[uid], out.user)]
  /\ workers' = [workers EXCEPT ![w] = IdleWorker]
  /\ warned' = IF me.action = "warning"
               THEN [warned EXCEPT ![uid] = @ + 1] ELSE warned
  /\ direct_ban' = IF me.action = "ban"
                   THEN [direct_ban EXCEPT ![uid] = TRUE] ELSE direct_ban
  /\ user_commits' = IF out.committed
                     THEN [user_commits EXCEPT ![me.rid] = TRUE]
                     ELSE user_commits
  /\ orphaned' = IF me.action = "warning"
                 THEN [orphaned EXCEPT ![me.rid] = TRUE] ELSE orphaned
  /\ notify_failed' = [notify_failed EXCEPT ![me.rid] = TRUE]
  /\ UNCHANGED <<notifications, ledger, reports, budget, log, fav_watch>>

\* The warning_info of the response of a warning or ban resolution: the
\* block after the report write of the branch that wrote waction.  Only the
\* branch that writes "warned" computes the two flags, the two that write
\* "banned" return False for both.
warning_info(user, waction) ==
  [warning_count |-> user.warning_count,
   status        |-> user.status,
   can_warn      |-> IF waction = "warned"
                     THEN user.warning_count < BanThreshold
                            /\ user.status # "BANNED"
                     ELSE FALSE,
   can_ban       |-> IF waction = "warned"
                     THEN user.warning_count >= BanThreshold
                     ELSE FALSE]

\* get_user_warning_info for report r, read from the stores rs, ld and us
get_user_warning_info(rs, ld, us, r) ==
  LET e == rs[r].priceEntryId
      u == IF e \in EntryIds /\ ld[e].exists THEN ld[e].submittedBy ELSE 0
  IN IF u \in UserIds /\ us[u].exists
     THEN [warning_count |-> us[u].warning_count,
           status        |-> us[u].status,
           can_warn      |-> us[u].warning_count < BanThreshold
                               /\ us[u].status # "BANNED",
           can_ban       |-> us[u].warning_count >= BanThreshold]
     ELSE [warning_count |-> 0, status |-> "UNKNOWN",
           can_warn |-> FALSE, can_ban |-> FALSE]

\* update_one({"$set": {"status": ..., "action": ...}}) of a branch; the
\* find_one that follows only feeds the response.
Resolve_WriteReport(w) ==
  /\ workers[w].pc = "write_report"
  /\ reports' = [reports EXCEPT ![workers[w].rid].status = workers[w].wstatus,
                                ![workers[w].rid].action = workers[w].waction]
  /\ workers' = [workers EXCEPT ![w] = IdleWorker]
  /\ UNCHANGED <<users, notifications, ledger, budget, history, log, fav_watch>>

\* update_one({"$set": {"status": new_status}}) of the fallback path
Resolve_WriteFallback(w) ==
  /\ workers[w].pc = "write_fallback"
  /\ reports' = [reports EXCEPT ![workers[w].rid].status = workers[w].wstatus]
  /\ workers' = [workers EXCEPT ![w].pc = "fallback_notify"]
  /\ UNCHANGED <<users, notifications, ledger, budget, history, log, fav_watch>>

\* the two notification blocks after the fallback write
Resolve_FallbackNotify(w) ==
  /\ workers[w].pc = "fallback_notify"
  /\ notifications' = notifications (+)
       FallbackNotifications(workers[w].new_status, workers[w].entry)
  /\ workers' = [workers EXCEPT ![w] = IdleWorker]
  /\ UNCHANGED <<users, ledger, reports, budget, history, log, fav_watch>>

\* A request that fails while it is suspended in an await on the document
\* store (the call raises or the request times out): the handler ends, what
\* it committed stays.
Abort(w) ==
  /\ workers[w].pc # "idle"
  /\ workers' = [workers EXCEPT ![w] = IdleWorker]
  /\ orphaned' = IF /\ workers[w].pc = "write_report"
                    /\ workers[w].action = "warning"
                 THEN [orphaned EXCEPT ![workers[w].rid] = TRUE]
                 ELSE orphaned
  /\ UNCHANGED <<users, notifications, ledger, reports, budget,
                 warned, direct_ban, user_commits, notify_failed, log, fav_watch>>

\* ----------------------------------------------------------- create_report
NextReportId == CHOOSE r \in ReportIds :
                  /\ ~reports[r].exists
                  /\ \A q \in ReportIds : q < r => reports[q].exists

\* insert_one(report.model_dump()); the status comes from the payload
\* (default PENDING)
Create_Insert(w, e, st) ==
  /\ workers[w].pc = "idle"
  /\ \E r \in ReportIds : ~reports[r].exists
  /\ reports' = [reports EXCEPT ![NextReportId] =
                   [exists |-> TRUE, priceEntryId |-> e,
                    status |-> st, action |-> "none"]]
  /\ workers' = [workers EXCEPT ![w] =
                   [IdleWorker EXCEPT !.pc = "cr_find_entry",
                                      !.rid = NextReportId, !.peid = e]]
  /\ UNCHANGED <<users, notifications, ledger, budget, history, log, fav_watch>>

Create_FindEntry(w) ==
  /\ workers[w].pc = "cr_find_entry"
  /\ workers' = [workers EXCEPT ![w].pc = "cr_notify",
                                ![w].entry = FindEntry(workers[w].peid)]
  /\ UNCHANGED <<users, notifications, ledger, reports, budget, history, log, fav_watch>>

Create_Notify(w) ==
  LET entry == workers[w].entry IN
  /\ workers[w].pc = "cr_notify"
  /\ notifications' =
       IF HasSubmitter(entry) /\ UserFound(entry.submittedBy)
       THEN notifications (+)
              SetToBag({Notification(entry.submittedBy,
                                     "Price Submission Reported")})
       ELSE notifications
  /\ workers' = [workers EXCEPT ![w] = IdleWorker]
  /\ UNCHANGED <<users, ledger, reports, budget, history, log, fav_watch>>

\* ------------------------------------------------------ delete_price_entry
OwnsEntry_Any(entry, caller) == TRUE

\* entry.get("submittedBy", {}).get("id") != current_user.id, negated
OwnsEntry(entry, caller) == entry.submittedBy = caller

\* find_one, the 404 and the ownership check
Delete_Find(w, e, caller) ==
  /\ workers[w].pc = "idle"
  /\ UserFound(caller)
  /\ FindEntry(e).found
  /\ OwnsEntry(FindEntry(e), caller)
  /\ workers' = [workers EXCEPT ![w] =
                   [IdleWorker EXCEPT !.pc = "delete_write", !.peid = e,
                                      !.caller = caller]]
  /\ UNCHANGED <<users, notifications, ledger, reports, budget, history, log, fav_watch>>

\* delete_one
Delete_Write(w) ==
  /\ workers[w].pc = "delete_write"
  /\ ledger' = [ledger EXCEPT ![workers[w].peid].exists = FALSE]
  /\ workers' = [workers EXCEPT ![w] = IdleWorker]
  /\ UNCHANGED <<users, notifications, reports, budget, history, log, fav_watch>>

\* find_one misses or the caller is not the submitter: 404 or 403
Delete_Reject(w, e, caller) ==
  /\ workers[w].pc = "idle"
  /\ UserFound(caller)
  /\ ~(FindEntry(e).found /\ OwnsEntry(FindEntry(e), caller))
  /\ workers' = [workers EXCEPT ![w] =
                   [Response(caller,
                             IF FindEntry(e).found THEN "403" ELSE "404", 0)
                      EXCEPT !.peid = e]]
  /\ UNCHANGED <<users, notifications, ledger, reports, budget, history, log, fav_watch>>

\* ------------------------------------------------------ update_price_entry
\* the price of an update payload; float(price) <= 0 is refused
UpdatePrices == {0, 1, 2}

\* The payloads of update_price_entry, a dict: a price, and a submittedBy.id
\* the client may put in (0 for no such key).
UpdateInputs == { [price |-> p, submittedBy |-> s] : p \in UpdatePrices,
                                                     s \in {0, GhostUser} }

update_data_Unfiltered(payload) == payload

\* {k: v for k, v in price_data.items() if k in allowed_fields}: price is
\* an allowed field, submittedBy is not (0: the key is dropped)
update_data(payload) == [payload EXCEPT !.submittedBy = 0]

\* what {"$set": data} makes of a document
SetFields(doc, data) ==
  [doc EXCEPT !.price = data.price,
              !.submittedBy = IF data.submittedBy # 0 THEN data.submittedBy
                              ELSE @]

\* find_one and every check up to the update_one
Update_Find(w, e, caller, payload) ==
  LET entry == FindEntry(e)
      data  == update_data(payload)
      code  == IF ~entry.found THEN "404"
               ELSE IF ~OwnsEntry(entry, caller) THEN "403"
               ELSE IF data.price <= 0 THEN "400"
               ELSE "pass"
  IN
  /\ workers[w].pc = "idle"
  /\ UserFound(caller)
  /\ workers' = [workers EXCEPT ![w] =
                   IF code = "pass"
                   THEN [IdleWorker EXCEPT !.pc = "pu_write", !.peid = e,
                                           !.caller = caller,
                                           !.price = data.price,
                                           !.submitted_by = data.submittedBy]
                   ELSE [Response(caller, code, 0) EXCEPT !.peid = e]]
  /\ UNCHANGED <<users, notifications, ledger, reports, budget, history, log, fav_watch>>

\* update_one({"$set": update_data}) and the look at its counts
Update_Write(w) ==
  LET me   == workers[w]
      data == [price |-> me.price, submittedBy |-> me.submitted_by]
  IN
  /\ me.pc = "pu_write"
  /\ IF ~ledger[me.peid].exists
     THEN \* matched_count == 0
          /\ workers' = [workers EXCEPT ![w] = Response(me.caller, "404", 0)]
          /\ UNCHANGED ledger
     ELSE IF SetFields(ledger[me.peid], data) = ledger[me.peid]
     THEN \* modified_count == 0: data is identical
          /\ workers' = [workers EXCEPT ![w] = Response(me.caller, "400", 0)]
          /\ UNCHANGED ledger
     ELSE /\ ledger' = [ledger EXCEPT ![me.peid] = SetFields(@, data)]
          /\ workers' = [workers EXCEPT ![w] = Response(me.caller, "200", 0)]
  /\ UNCHANGED <<users, notifications, reports, budget, history, log, fav_watch>>

\* ------------------------------------------------------ create_price_entry
\* owner_user_id of the rows of the shops table: shop 1 belongs to user 1,
\* shop 2 to an account that sends none of the requests (0)
shop_owner == [s \in ShopIds |-> IF s = 1 THEN 1 ELSE 0]

\* The payloads of create_price_entry: shopId and submittedBy.id, 0 for a
\* key that is absent.
SubmitInputs ==
  { [shopId |-> 0, submittedBy |-> 0, price |-> 1],
    [shopId |-> 1, submittedBy |-> 0, price |-> 1],
    [shopId |-> 0, submittedBy |-> 2, price |-> 1] }

\* The ban check at the head of the handler.  updated_at comes from a
\* DateTime column without time zone and is compared with
\* datetime.now(ZoneInfo(...)) - timedelta(days=30): for every updated_at
\* that is not NULL the comparison of a naive with an aware datetime raises
\* TypeError, whatever the elapsed time, and the request ends with a 500
\* before the status is assigned.
BanGate(user) ==
  IF user.status # "BANNED" THEN "pass"
  ELSE IF user.idle_days = NullDate THEN "403"
  ELSE "500"

\* current_user.role in [CONTRIBUTOR, RETAILER, ADMIN]
MaySubmit(user) == user.role \in {"CONTRIBUTOR", "RETAILER", "ADMIN"}

\* the shop exists and the caller owns it or is an admin
ShopAllowed(shopId, caller) ==
  /\ shopId \in ShopIds
  /\ shop_owner[shopId] = caller \/ users[caller].role = "ADMIN"

\* insert_one generates a fresh ObjectId: the least id no document ever had
NextEntryId == CHOOSE e \in EntryIds :
                 /\ ledger[e] = NoDocument
                 /\ \A q \in EntryIds : q < e => ledger[q] # NoDocument

\* the checks at the head of the handler, in the order of the code: "pass"
\* or the status code of the rejection
SubmitVerdict(caller, inp) ==
  IF BanGate(users[caller]) # "pass" THEN BanGate(users[caller])
  ELSE IF ~MaySubmit(users[caller]) THEN "403"
  ELSE IF inp.shopId # 0 /\ inp.shopId \notin ShopIds THEN "404"
  ELSE IF inp.shopId # 0 /\ ~ShopAllowed(inp.shopId, caller) THEN "403"
  ELSE "pass"

\* From the head of the handler to its first await on the document store.
\* A rejected request (403, 404, 500) leaves the stores as they were.
Submit_Check(w, caller, inp) ==
  /\ workers[w].pc = "idle"
  /\ UserFound(caller)
  /\ \E e \in EntryIds : ledger[e] = NoDocument
  /\ IF SubmitVerdict(caller, inp) = "pass"
     THEN workers' = [workers EXCEPT ![w] =
                       [IdleWorker EXCEPT
                          !.pc = "pe_insert", !.caller = caller,
                          !.shopId = inp.shopId, !.price = inp.price,
                          !.submitted_by = IF inp.submittedBy # 0
                                           THEN inp.submittedBy ELSE caller]]
     ELSE workers' = [workers EXCEPT ![w] =
                       Response(caller, SubmitVerdict(caller, inp), 0)]
  /\ UNCHANGED <<users, notifications, ledger, reports, budget, history, log, fav_watch>>

\* insert_one takes effect; find_one only feeds the response
Submit_Insert(w) ==
  /\ workers[w].pc = "pe_insert"
  /\ \E e \in EntryIds : ledger[e] = NoDocument
  /\ ledger' = [ledger EXCEPT ![NextEntryId] =
                  [exists |-> TRUE, price |-> workers[w].price,
                   submittedBy |-> workers[w].submitted_by]]
  /\ workers' = [workers EXCEPT ![w] =
                   IF workers[w].shopId # 0
                   THEN [workers[w] EXCEPT !.pc = "pe_alerts",
                                           !.peid = NextEntryId]
                   ELSE Response(workers[w].caller, "200", 0)]
  /\ UNCHANGED <<users, notifications, reports, budget, history, log, fav_watch>>

PriceAlert(uid) == [user_id |-> uid, title |-> "Price Alert", category |-> "price"]

\* one notification for each fav_watch row of the shop
RECURSIVE AlertsFor(_)
AlertsFor(rows) ==
  IF rows = {} THEN EmptyBag
  ELSE LET f == CHOOSE x \in rows : TRUE
       IN SetToBag({PriceAlert(f.user_id)}) (+) AlertsFor(rows \ {f})

\* db.query(FavWatch).filter(FavWatch.shop_id == shop_id).all()
Watchers(shop) == {f \in fav_watch : f.shop_id = shop}

\* create_price_alerts_for_favorites and its commit
Submit_Alerts(w) ==
  /\ workers[w].pc = "pe_alerts"
  /\ notifications' = notifications (+) AlertsFor(Watchers(workers[w].shopId))
  /\ workers' = [workers EXCEPT ![w] = Response(workers[w].caller, "200", 0)]
  /\ UNCHANGED <<users, ledger, reports, budget, history, log, fav_watch>>

\* logger.error(f"Failed to create notification for user {fav.user_id}: {e}")
RowFailed(shop, uid) == [event |-> "alert_skipped", id |-> shop, user |-> uid]

\* logger.error(f"Failed to create price alerts: {e}"): the error names the
\* user whose INSERT the database refused, 0 when a query failed
AlertsFailed(shop, cause) ==
  [event |-> "alerts_failed", id |-> shop, user |-> cause]

\* The constructor or the db.add of one row raises inside the loop: the
\* inner handler logs it and the loop goes on with the other rows.
Submit_AlertsSkip(w, f) ==
  /\ workers[w].pc = "pe_alerts"
  /\ f \in Watchers(workers[w].shopId)
  /\ notifications' = notifications (+)
                        AlertsFor(Watchers(workers[w].shopId) \ {f})
  /\ log' = log (+) SetToBag({RowFailed(workers[w].shopId, f.user_id)})
  /\ workers' = [workers EXCEPT ![w] = Response(workers[w].caller, "200", 0)]
  /\ UNCHANGED <<users, ledger, reports, budget, history, fav_watch>>

Submit_AlertsFail_Silent(w, cause) ==
  /\ workers[w].pc = "pe_alerts"
  /\ cause \in {0} \cup {f.user_id : f \in Watchers(workers[w].shopId)}
  /\ workers' = [workers EXCEPT ![w] = Response(workers[w].caller, "200", 0)]
  /\ UNCHANGED <<users, notifications, ledger, reports, budget, history, log, fav_watch>>

\* A query raises, or the database refuses the INSERT of one row when
\* db.commit() flushes the session: the outer handler logs the error and
\* rolls the session back, and create_price_entry returns the created entry.
Submit_AlertsFail(w, cause) ==
  /\ workers[w].pc = "pe_alerts"
  /\ cause \in {0} \cup {f.user_id : f \in Watchers(workers[w].shopId)}
  /\ log' = log (+) SetToBag({AlertsFailed(workers[w].shopId, cause)})
  /\ workers' = [workers EXCEPT ![w] = Response(workers[w].caller, "200", 0)]
  /\ UNCHANGED <<users, notifications, ledger, reports, budget, history, fav_watch>>

\* --------------------------------------------------------- create_fav_watch
\* The payloads of create_fav_watch: 0 stands for an absent key.
FavInputs == { [shop_id |-> s, item_id |-> i] : s \in {0} \cup ShopIds,
                                                i \in {0, 1} }

\* the rows the duplicate query of create_fav_watch returns
ExistingFav(caller, inp) ==
  { f \in fav_watch :
      /\ f.user_id = caller
      /\ inp.item_id # 0 => f.item_id = inp.item_id
      /\ f.shop_id = inp.shop_id }

OwnShop_Never(caller, inp) == FALSE

\* shop and shop.owner_user_id == current_user.id, for a payload with a shop
OwnShop(caller, inp) ==
  inp.shop_id # 0 /\ shop_owner[inp.shop_id] = caller

CreateFavWatch(w, caller, inp) ==
  /\ workers[w].pc = "idle"
  /\ UserFound(caller)
  /\ IF inp.item_id = 0 /\ inp.shop_id = 0
     THEN /\ workers' = [workers EXCEPT ![w] = Response(caller, "400", 0)]
          /\ UNCHANGED fav_watch
     ELSE IF OwnShop(caller, inp)
     THEN /\ workers' = [workers EXCEPT ![w] = Response(caller, "403", 0)]
          /\ UNCHANGED fav_watch
     ELSE IF ExistingFav(caller, inp) # {}
     THEN /\ workers' = [workers EXCEPT ![w] = Response(caller, "200", 0)]
          /\ UNCHANGED fav_watch
     ELSE /\ fav_watch' = fav_watch \cup
                 { [id |-> Cardinality(fav_watch) + 1, user_id |-> caller,
                    shop_id |-> inp.shop_id, item_id |-> inp.item_id] }
          /\ workers' = [workers EXCEPT ![w] = Response(caller, "200", 0)]
  /\ UNCHANGED <<users, notifications, ledger, reports, budget, history, log>>

\* ----------------------------------------------------- update_current_user
\* The payloads of update_current_user: status and role ("none" for an
\* absent key), and whether one of the other columns changes.
ProfileInputs ==
  { [status |-> "ACTIVE", role |-> "none",        other |-> FALSE],
    [status |-> "none",   role |-> "CONTRIBUTOR", other |-> FALSE],
    [status |-> "none",   role |-> "none",        other |-> TRUE] }

Updated_ResetsCount(user, inp) ==
  [user EXCEPT !.status = IF inp.status # "none" THEN inp.status ELSE @,
               !.role   = IF inp.role # "none" THEN inp.role ELSE @,
               !.warning_count = IF inp.status = "ACTIVE" THEN 0 ELSE @]

\* the columns the handler assigns from the payload
Updated(user, inp) ==
  [user EXCEPT !.status = IF inp.status # "none" THEN inp.status ELSE @,
               !.role   = IF inp.role # "none" THEN inp.role ELSE @]

\* the payloads that set one of the three statuses and nothing else
StatusInputs ==
  { [status |-> st, role |-> "none", other |-> FALSE] :
      st \in {"ACTIVE", "BANNED", "PENDING"} }

UpdateProfile(w, caller, inp) ==
  /\ workers[w].pc = "idle"
  /\ UserFound(caller)
  /\ users' = [users EXCEPT ![caller] =
                 IF inp.other THEN [Updated(@, inp) EXCEPT !.idle_days = 0]
                 ELSE Flush(@, Updated(@, inp))]
  /\ direct_ban' = [direct_ban EXCEPT ![caller] = @ \/ inp.status = "BANNED"]
  /\ UNCHANGED <<notifications, ledger, reports, workers, budget, warned,
                 user_commits, orphaned, notify_failed, log, fav_watch>>

\* --------------------------------------------- broadcast_system_announcement
ActiveUsers_NotBanned ==
  {u \in UserIds : users[u].exists /\ users[u].status # "BANNED"}

\* db.query(User).filter(User.status == UserStatus.ACTIVE).all()
ActiveUsers == {u \in UserIds : users[u].exists /\ users[u].status = "ACTIVE"}

RECURSIVE AnnouncementsFor(_)
AnnouncementsFor(uids) ==
  IF uids = {} THEN EmptyBag
  ELSE LET u == CHOOSE x \in uids : TRUE
       IN SetToBag({Notification(u, "Announcement")})
            (+) AnnouncementsFor(uids \ {u})

Broadcast_Silent(w) ==
  /\ workers[w].pc = "idle"
  /\ budget > 0
  /\ notifications' = notifications (+) AnnouncementsFor(ActiveUsers)
  /\ workers' = [workers EXCEPT ![w] =
                   Response(0, "200", Cardinality(ActiveUsers))]
  /\ budget' = budget - 1
  /\ UNCHANGED <<users, ledger, reports, history, log, fav_watch>>

Broadcast(w) ==
  /\ workers[w].pc = "idle"
  /\ budget > 0
  /\ IF ActiveUsers = {}
     THEN \* 404 No active users found
          /\ workers' = [workers EXCEPT ![w] = Response(0, "404", 0)]
          /\ UNCHANGED <<notifications, budget>>
     ELSE /\ notifications' = notifications (+) AnnouncementsFor(ActiveUsers)
          /\ workers' = [workers EXCEPT ![w] =
                           Response(0, "200", Cardinality(ActiveUsers))]
          /\ budget' = budget - 1
  /\ UNCHANGED <<users, ledger, reports, history, log, fav_watch>>

\* --------------------------------------------------------- report listings
\* The status filters of the three listings: read_reports with a status or
\* without one, get_pending_reports, get_reviewed_reports.
StatusFilters ==
  { {st} : st \in valid_statuses } \cup
  { valid_statuses, {"PENDING"}, {"REVIEWED", "DISMISSED"} }

\* {"$match": query}
Match(statuses) ==
  {r \in ReportIds : reports[r].exists /\ reports[r].status \in statuses}

\* {"$lookup": {"from": "price_entries", ...}}: the report with the array
\* of the entries its priceEntryId names
Lookup(r) ==
  [id |-> r, status |-> reports[r].status,
   priceEntry |-> {e \in EntryIds : e = reports[r].priceEntryId
                                      /\ ledger[e].exists}]

Unwind_Inner(rows) ==
  UNION { { [id |-> row.id, status |-> row.status, priceEntry |-> e] :
              e \in row.priceEntry } : row \in rows }

\* {"$unwind": {"path": "$priceEntry", "preserveNullAndEmptyArrays": True}}:
\* one row per element of the array, and one row without a priceEntry (0)
\* for an empty array
Unwind(rows) ==
  { [id |-> row.id, status |-> row.status, priceEntry |-> 0] :
      row \in {x \in rows : x.priceEntry = {}} } \cup
  UNION { { [id |-> row.id, status |-> row.status, priceEntry |-> e] :
              e \in row.priceEntry } : row \in rows }

\* enrich_reports_with_postgres_data and report.get(...) for one row: 0
\* stands for None
Enriched(row) ==
  LET e == row.priceEntry IN
  [id |-> row.id, status |-> row.status,
   submitterName  |-> IF e # 0 /\ UserFound(ledger[e].submittedBy)
                      THEN ledger[e].submittedBy ELSE 0,
   submittedPrice |-> IF e # 0 THEN ledger[e].price ELSE 0]

\* the response of a listing
Listing(statuses) ==
  { Enriched(row) : row \in Unwind({ Lookup(r) : r \in Match(statuses) }) }

\* ------------------------------------------------------ create_notification
\* The payloads of create_notification: user_id (0 for an absent key) and
\* category.
NotifyInputs == { [user_id |-> u, category |-> c] :
                    u \in {0} \cup UserIds, c \in {"system", "price"} }

\* payload.get("user_id", current_user.id)
Recipient(caller, payload) ==
  IF payload.user_id = 0 THEN caller ELSE payload.user_id

CreateNotification(w, caller, payload) ==
  /\ workers[w].pc = "idle"
  /\ UserFound(caller)
  /\ budget > 0
  /\ IF payload.category = "system" /\ users[caller].role # "ADMIN"
     THEN /\ workers' = [workers EXCEPT ![w] = Response(caller, "403", 0)]
          /\ UNCHANGED <<notifications, budget>>
     ELSE /\ notifications' = notifications (+)
               SetToBag({[user_id |-> Recipient(caller, payload),
                          title |-> "Custom",
                          category |-> payload.category]})
          /\ workers' = [workers EXCEPT ![w] = Response(caller, "200", 0)]
          /\ budget' = budget - 1
  /\ UNCHANGED <<users, ledger, reports, history, log, fav_watch>>

\* ------------------------------------------------------------- the response
\* the response is sent and the request is over
Reply(w) ==
  /\ workers[w].pc = "reply"
  /\ workers' = [workers EXCEPT ![w] = IdleWorker]
  /\ UNCHANGED <<users, notifications, ledger, reports, budget, history, log, fav_watch>>

\* ------------------------------------------------------------------- time
\* More than BanDays days pass without an UPDATE of any row.
DaysPass ==
  /\ \A w \in DOMAIN workers : workers[w].pc = "idle"
  /\ \E u \in UserIds : users[u].idle_days \in 0..BanDays
  /\ users' = [u \in UserIds |->
                 IF users[u].idle_days = NullDate THEN users[u]
                 ELSE [users[u] EXCEPT !.idle_days = BanDays + 1]]
  /\ UNCHANGED <<notifications, ledger, reports, workers, budget, history, log, fav_watch>>

\* -------------------------------------------------------------------- Next
Next ==
  \/ \E w \in DOMAIN workers, r \in ReportIds, cmd \in ResolutionInputs :
       Resolve_FindReport(w, r, cmd.status, cmd.action)
  \/ \E w \in DOMAIN workers : Resolve_FindEntry(w)
  \/ \E w \in DOMAIN workers : Resolve_Escalate(w)
  \/ \E w \in DOMAIN workers : Resolve_WriteReport(w)
  \/ \E w \in DOMAIN workers : Resolve_WriteFallback(w)
  \/ \E w \in DOMAIN workers : Resolve_FallbackNotify(w)
  \/ \E w \in DOMAIN workers : Abort(w)
  \/ \E w \in DOMAIN workers, e \in EntryIds, st \in CreateStatuses :
       Create_Insert(w, e, st)
  \/ \E w \in DOMAIN workers : Create_FindEntry(w)
  \/ \E w \in DOMAIN workers : Create_Notify(w)
  \/ \E w \in DOMAIN workers, e \in EntryIds, caller \in UserIds :
       Delete_Find(w, e, caller)
  \/ \E w \in DOMAIN workers : Delete_Write(w)

Spec == Init /\ [][Next]_vars

\* update_report_status requests only, with the failures of either store
NextConc ==
  \/ \E w \in DOMAIN workers, r \in ReportIds, cmd \in ResolutionInputs :
       Resolve_FindReport(w, r, cmd.status, cmd.action)
  \/ \E w \in DOMAIN workers : Resolve_FindEntry(w)
  \/ \E w \in DOMAIN workers : Resolve_Escalate(w)
  \/ \E w \in DOMAIN workers : Resolve_NotifyFails(w)
  \/ \E w \in DOMAIN workers : Resolve_WriteReport(w)
  \/ \E w \in DOMAIN workers : Resolve_WriteFallback(w)
  \/ \E w \in DOMAIN workers : Resolve_FallbackNotify(w)
  \/ \E w \in DOMAIN workers : Abort(w)

SpecConc == InitConc /\ [][NextConc]_vars

\* The ids of the entries written so far.  An ObjectId is generated when
\* its document is inserted: a report names an entry that was submitted.
Submitted == {e \in EntryIds : ledger[e].exists}

\* the requests that wrote an entry, wrote a report, resolved or broadcast
Issued ==
  (AcctCmds - budget) + Cardinality(Submitted)
                      + Cardinality({r \in ReportIds : reports[r].exists})

\* submissions, reports, resolutions, profile updates and broadcasts, one
\* request at a time, AcctCmds of them that write
NextAcct ==
  \/ /\ Issued < AcctCmds
     /\ \E w \in DOMAIN workers, caller \in UserIds, inp \in SubmitInputs :
          Submit_Check(w, caller, inp)
  \/ \E w \in DOMAIN workers : Submit_Insert(w)
  \/ \E w \in DOMAIN workers : Submit_Alerts(w)
  \/ \E w \in DOMAIN workers, caller \in UserIds, inp \in ProfileInputs :
       UpdateProfile(w, caller, inp)
  \/ /\ Issued < AcctCmds
     /\ \E w \in DOMAIN workers : Broadcast(w)
  \/ \E w \in DOMAIN workers : Reply(w)
  \/ DaysPass
  \/ /\ Issued < AcctCmds
     /\ \E w \in DOMAIN workers, e \in Submitted, st \in valid_statuses :
          Create_Insert(w, e, st)
  \/ \E w \in DOMAIN workers : Create_FindEntry(w)
  \/ \E w \in DOMAIN workers : Create_Notify(w)
  \/ /\ Issued < AcctCmds
     /\ \E w \in DOMAIN workers, r \in ReportIds,
            cmd \in ResolutionInputs \cup InvalidActionInputs :
          Resolve_FindReport(w, r, cmd.status, cmd.action)
  \/ \E w \in DOMAIN workers : Resolve_FindEntry(w)
  \/ \E w \in DOMAIN workers : Resolve_Escalate(w)
  \/ \E w \in DOMAIN workers : Resolve_WriteReport(w)
  \/ \E w \in DOMAIN workers : Resolve_WriteFallback(w)
  \/ \E w \in DOMAIN workers : Resolve_FallbackNotify(w)

SpecAcct == InitAcct /\ [][NextAcct]_vars

\* The ledger and its fan-out: an admin (user 1) and a plain user (user 2),
\* no favorite yet, no entry yet.
InitLedger ==
  /\ notifications = EmptyBag
  /\ ledger = [e \in EntryIds |-> NoDocument]
  /\ reports = [r \in ReportIds |-> NoReport]
  /\ warned = [u \in UserIds |-> 0]
  /\ user_commits = [r \in ReportIds |-> FALSE]
  /\ orphaned = [r \in ReportIds |-> FALSE]
  /\ notify_failed = [r \in ReportIds |-> FALSE]
  /\ log = EmptyBag
  /\ fav_watch = {}
  /\ users = [u \in UserIds |-> Registered(IF u = 1 THEN "ADMIN" ELSE "USER")]
  /\ direct_ban = [u \in UserIds |-> FALSE]
  /\ workers = [w \in {1} |-> IdleWorker]
  /\ budget = LedgerCmds

\* the payloads of create_price_entry with the shop of another account,
\* and one with a price that is not positive (price: float, any value)
LedgerInputs ==
  SubmitInputs \cup {[shopId |-> 2, submittedBy |-> 0, price |-> 1],
                     [shopId |-> 0, submittedBy |-> 0, price |-> 0]}

\* the requests that wrote an entry or added a favorite
Written ==
  Cardinality({e \in EntryIds : ledger[e] # NoDocument}) + Cardinality(fav_watch)

\* submissions with their fan-out, favorites, updates and deletions of
\* entries, one request at a time
NextLedger ==
  \/ /\ Written < LedgerCmds
     /\ \E w \in DOMAIN workers, caller \in UserIds, inp \in LedgerInputs :
          Submit_Check(w, caller, inp)
  \/ \E w \in DOMAIN workers : Submit_Insert(w)
  \/ \E w \in DOMAIN workers : Submit_Alerts(w)
  \/ \E w \in DOMAIN workers, f \in fav_watch : Submit_AlertsSkip(w, f)
  \/ \E w \in DOMAIN workers, cause \in {0} \cup UserIds :
       Submit_AlertsFail(w, cause)
  \/ /\ Written < LedgerCmds
     /\ \E w \in DOMAIN workers, caller \in UserIds, inp \in FavInputs :
          CreateFavWatch(w, caller, inp)
  \/ \E w \in DOMAIN workers, e \in EntryIds, caller \in UserIds,
        payload \in UpdateInputs : Update_Find(w, e, caller, payload)
  \/ \E w \in DOMAIN workers : Update_Write(w)
  \/ \E w \in DOMAIN workers, e \in EntryIds, caller \in UserIds :
       Delete_Find(w, e, caller)
  \/ \E w \in DOMAIN workers, e \in EntryIds, caller \in UserIds :
       Delete_Reject(w, e, caller)
  \/ \E w \in DOMAIN workers : Delete_Write(w)
  \/ \E w \in DOMAIN workers : Reply(w)

SpecLedger == InitLedger /\ [][NextLedger]_vars

\* Submissions that overlap with resolutions.  User 1 (CONTRIBUTOR) has
\* written entry 1 and create_report has inserted a PENDING report against
\* it and notified the submitter.
InitRace ==
  /\ notifications = SetToBag({Notification(1, "Price Submission Reported")})
  /\ ledger = [e \in EntryIds |->
                IF e = 1 THEN [exists |-> TRUE, price |-> 1, submittedBy |-> 1]
                ELSE NoDocument]
  /\ reports = [r \in ReportIds |->
                 IF r = 1 THEN [NoReport EXCEPT !.exists = TRUE,
                                                !.priceEntryId = 1]
                 ELSE NoReport]
  /\ warned = [u \in UserIds |-> 0]
  /\ user_commits = [r \in ReportIds |-> FALSE]
  /\ orphaned = [r \in ReportIds |-> FALSE]
  /\ notify_failed = [r \in ReportIds |-> FALSE]
  /\ log = EmptyBag
  /\ fav_watch = OneWatcher
  /\ users = [u \in UserIds |->
                Registered(IF u = 1 THEN "CONTRIBUTOR" ELSE "USER")]
  /\ direct_ban = [u \in UserIds |-> FALSE]
  /\ workers = [w \in 1..NumWorkers |-> IdleWorker]
  /\ budget = ConcCmds

\* the resolution commands that ban
BanInputs == {cmd \in ResolutionInputs : cmd.action = "ban"}

\* create_price_entry and update_report_status requests in flight together
NextRace ==
  \/ \E w \in DOMAIN workers, r \in ReportIds, cmd \in BanInputs :
       Resolve_FindReport(w, r, cmd.status, cmd.action)
  \/ \E w \in DOMAIN workers : Resolve_FindEntry(w)
  \/ \E w \in DOMAIN workers : Resolve_Escalate(w)
  \/ \E w \in DOMAIN workers : Resolve_WriteReport(w)
  \/ \E w \in DOMAIN workers : Abort(w)
  \/ \E w \in DOMAIN workers, caller \in UserIds, inp \in SubmitInputs :
       Submit_Check(w, caller, inp)
  \/ \E w \in DOMAIN workers : Submit_Insert(w)
  \/ \E w \in DOMAIN workers : Submit_Alerts(w)
  \/ \E w \in DOMAIN workers : Reply(w)

SpecRace == InitRace /\ [][NextRace]_vars

\* the resolution commands that warn
WarningInputs == {cmd \in ResolutionInputs :
                    cmd.status = "REVIEWED" /\ cmd.action = "warning"}

\* reports, warnings and profile updates, one request at a time
NextReact ==
  \/ \E w \in DOMAIN workers, e \in EntryIds, st \in CreateStatuses :
       Create_Insert(w, e, st)
  \/ \E w \in DOMAIN workers : Create_FindEntry(w)
  \/ \E w \in DOMAIN workers : Create_Notify(w)
  \/ \E w \in DOMAIN workers, r \in ReportIds, cmd \in WarningInputs :
       Resolve_FindReport(w, r, cmd.status, cmd.action)
  \/ \E w \in DOMAIN workers : Resolve_FindEntry(w)
  \/ \E w \in DOMAIN workers : Resolve_Escalate(w)
  \/ \E w \in DOMAIN workers : Resolve_WriteReport(w)
  \/ \E w \in DOMAIN workers : Resolve_WriteFallback(w)
  \/ \E w \in DOMAIN workers : Resolve_FallbackNotify(w)
  \/ \E w \in DOMAIN workers, caller \in UserIds, inp \in ProfileInputs :
       UpdateProfile(w, caller, inp)

SpecReact == Init /\ [][NextReact]_vars

\* broadcasts and create_notification calls among users who set their own
\* status
NextCast ==
  \/ \E w \in DOMAIN workers, caller \in UserIds, inp \in StatusInputs :
       UpdateProfile(w, caller, inp)
  \/ \E w \in DOMAIN workers : Broadcast(w)
  \/ \E w \in DOMAIN workers, caller \in UserIds, payload \in NotifyInputs :
       CreateNotification(w, caller, payload)
  \/ \E w \in DOMAIN workers : Reply(w)

SpecCast == InitAcct /\ [][NextCast]_vars

\* ================================================================= claims
\* The steps of a resolution command, as seen across one transition.

\* w runs the stretch from the user query to the report write
EscalateStep(w, act) ==
  /\ workers[w].pc = "escalate"
  /\ workers[w].action = act
  /\ TakesBranch(workers[w].entry, act)
  /\ workers'[w].pc = "write_report"

\* w's update_one on the report takes effect
WriteStep(w) ==
  /\ workers[w].pc \in {"write_report", "write_fallback"}
  /\ workers'[w].pc \in {"idle", "fallback_notify"}
  /\ orphaned' = orphaned
  /\ reports' # reports

Resolved(r) == reports[r].exists /\ reports[r].status \in {"REVIEWED", "DISMISSED"}

Submitter(w) == workers[w].entry.submittedBy

\* the price entry or its submitter did not resolve
Dangling(w) ==
  ~(HasSubmitter(workers[w].entry) /\ UserFound(Submitter(w)))

\* C1: once a report is REVIEWED or DISMISSED, no step changes its status.
C1_ResolvedIsTerminal ==
  [][\A r \in ReportIds :
       Resolved(r) => reports'[r].status = reports[r].status]_vars

\* C2: a warning resolution on a report that is already REVIEWED or DISMISSED
\* leaves every user's warning_count and status as they were.
C2_WarningOnResolvedIsNoOp ==
  [][\A w \in DOMAIN workers :
       (EscalateStep(w, "warning") /\ Resolved(workers[w].rid))
         => users' = users]_vars

\* C3: of two overlapping warning resolutions for the same PENDING report, at
\* most one applies the escalation (increments warning_count and notifies).
C3_SingleEscalation ==
  \A w1, w2 \in DOMAIN workers :
    ( /\ w1 # w2
      /\ workers[w1].pc = "write_report" /\ workers[w2].pc = "write_report"
      /\ workers[w1].action = "warning" /\ workers[w2].action = "warning"
      /\ workers[w1].rid = workers[w2].rid
      /\ reports[workers[w1].rid].status = "PENDING" )
    => ~( /\ workers[w1].waction \in {"warned", "banned"}
          /\ workers[w2].waction \in {"warned", "banned"} )

\* C4: no user's warning_count exceeds the ban threshold.
C4_CountWithinThreshold ==
  \A u \in UserIds : users[u].warning_count <= BanThreshold

\* C5: a warning resolution on a PENDING report whose submitter resolves adds
\* exactly 1 to the submitter's warning_count; when the new count reaches 3
\* the submitter becomes BANNED and the report is written REVIEWED/"banned",
\* otherwise the submitter's status stays and the report is written
\* REVIEWED/"warned".
C5_WarningEscalation ==
  [][\A w \in DOMAIN workers :
       /\ (EscalateStep(w, "warning") /\ reports[workers[w].rid].status = "PENDING")
            => LET u == Submitter(w)
                   n == users[u].warning_count + 1
               IN /\ users'[u].warning_count = n
                  /\ workers'[w].wstatus = "REVIEWED"
                  /\ IF n >= 3
                     THEN /\ users'[u].status = "BANNED"
                          /\ workers'[w].waction = "banned"
                     ELSE /\ users'[u].status = users[u].status
                          /\ workers'[w].waction = "warned"
       /\ (WriteStep(w) /\ workers[w].action = "warning"
                        /\ workers[w].pc = "write_report")
            => /\ reports'[workers[w].rid].status = "REVIEWED"
               /\ reports'[workers[w].rid].action = workers[w].waction
               /\ workers[w].waction \in {"warned", "banned"}]_vars

C5_Witness ==
  /\ users[1].warning_count = 3
  /\ users[1].status = "BANNED"
  /\ ~direct_ban[1]
  /\ \E r \in ReportIds : reports[r].status = "REVIEWED" /\ reports[r].action = "banned"
  /\ \E r \in ReportIds : reports[r].status = "REVIEWED" /\ reports[r].action = "warned"

\* Two warning resolutions for two different PENDING reports against the same
\* submitter overlap, and both are past their user-side stretch.
Overlap(w1, w2) ==
  /\ w1 # w2
  /\ workers[w1].pc = "write_report" /\ workers[w2].pc = "write_report"
  /\ workers[w1].action = "warning" /\ workers[w2].action = "warning"
  /\ workers[w1].rid # workers[w2].rid
  /\ reports[workers[w1].rid].status = "PENDING"
  /\ reports[workers[w2].rid].status = "PENDING"
  /\ Submitter(w1) = Submitter(w2)

C7_RetryDoesNotReapply ==
  [][\A w \in DOMAIN workers :
       ( /\ EscalateStep(w, "warning")
         /\ orphaned[workers[w].rid]
         /\ reports[workers[w].rid].status = "PENDING" )
         => users' = users]_vars

\* C8: a report write with action "warned" or "banned" is attempted, and such
\* a report exists, only after the user-side mutation of that report's
\* resolution was committed.
C8_UserSideFirst ==
  /\ \A r \in ReportIds :
       reports[r].action \in {"warned", "banned"} => user_commits[r]
  /\ \A w \in DOMAIN workers :
       (workers[w].pc = "write_report"
          /\ workers[w].waction \in {"warned", "banned"})
         => user_commits[workers[w].rid]

C8_Witness ==
  \E r \in ReportIds :
    /\ reports[r].status = "REVIEWED"
    /\ reports[r].action = "warned"
    /\ user_commits[r]
    /\ users[1].warning_count >= 1

\* C9: a resolution whose price entry or submitter does not resolve writes
\* the caller-supplied status to its report and nothing else: no user row
\* and no notification changes in any of its steps.
C9_DanglingFallback ==
  [][\A w \in DOMAIN workers :
       LET me == workers[w] IN
       /\ (me.pc = "escalate" /\ Dangling(w)
             /\ workers'[w].pc \notin {"escalate", "idle"})
            => /\ workers'[w].pc = "write_fallback"
               /\ workers'[w].wstatus = me.new_status
               /\ UNCHANGED <<users, notifications, reports>>
       /\ (me.pc = "write_fallback" /\ Dangling(w)
             /\ workers'[w].pc \notin {"write_fallback", "idle"})
            => /\ reports' = [reports EXCEPT ![me.rid].status = me.new_status]
               /\ UNCHANGED <<users, notifications>>
       /\ (me.pc = "fallback_notify" /\ Dangling(w)
             /\ workers'[w].pc # "fallback_notify")
            => UNCHANGED <<users, notifications, reports>>]_vars

C9_Witness ==
  \E w \in DOMAIN workers :
    /\ workers[w].pc = "fallback_notify"
    /\ ~workers[w].entry.found
    /\ ~ledger[workers[w].peid].exists
    /\ workers[w].new_status = "REVIEWED"
    /\ reports[workers[w].rid].status = "REVIEWED"
    /\ reports[workers[w].rid].action = "none"

\* C10: a dismiss resolution on a report that a dismiss resolution already
\* made DISMISSED leaves the report as it is and creates no notification.
C10_DismissTwice ==
  [][\A w \in DOMAIN workers :
       LET r == workers[w].rid IN
       (/\ workers[w].pc \in {"escalate", "write_report"}
        /\ workers[w].action = "dismiss"
        /\ reports[r].status = "DISMISSED" /\ reports[r].action = "dismissed")
         => /\ EscalateStep(w, "dismiss") => notifications' = notifications
            /\ workers'[w].pc # workers[w].pc => reports'[r] = reports[r]]_vars

\* C11: a ban resolution whose submitter resolves makes the submitter BANNED
\* whatever the warning_count and the status were (an already BANNED user
\* stays BANNED), leaves the warning_count as it was, and writes the report
\* REVIEWED with action "banned".
C11_DirectBan ==
  [][\A w \in DOMAIN workers :
       /\ EscalateStep(w, "ban")
            => LET u == Submitter(w) IN
               /\ users'[u].status = "BANNED"
               /\ users'[u].warning_count = users[u].warning_count
               /\ workers'[w].wstatus = "REVIEWED"
               /\ workers'[w].waction = "banned"
       /\ (WriteStep(w) /\ workers[w].action = "ban"
                        /\ workers[w].pc = "write_report")
            => /\ reports'[workers[w].rid].status = "REVIEWED"
               /\ reports'[workers[w].rid].action = "banned"]_vars

\* a user without any warning was banned directly, twice
C11_Witness ==
  /\ users[1].status = "BANNED"
  /\ users[1].warning_count = 0
  /\ direct_ban[1]
  /\ \A r \in ReportIds :
       /\ reports[r].exists /\ reports[r].priceEntryId = 1
       /\ reports[r].status = "REVIEWED" /\ reports[r].action = "banned"

\* C12: a dismiss resolution whose submitter resolves leaves the submitter's
\* warning_count and status exactly as they were and writes the report
\* DISMISSED.
C12_DismissLeavesUser ==
  [][\A w \in DOMAIN workers :
       /\ EscalateStep(w, "dismiss")
            => /\ users' = users
               /\ workers'[w].wstatus = "DISMISSED"
       /\ (WriteStep(w) /\ workers[w].action = "dismiss"
                        /\ workers[w].pc = "write_report")
            => /\ reports'[workers[w].rid].status = "DISMISSED"
               /\ users' = users]_vars

\* a report against a warned user was dismissed, the warning is still there
C12_Witness ==
  /\ users[1].warning_count = 1
  /\ users[1].status = "ACTIVE"
  /\ \E r \in ReportIds :
       /\ reports[r].priceEntryId = 1
       /\ reports[r].status = "DISMISSED" /\ reports[r].action = "dismissed"
  /\ \E r \in ReportIds : reports[r].action = "warned"

\* the rows a step added to the notifications table
Created == notifications' (-) notifications

\* C15: a resolution that takes the dismiss, warning or ban branch creates
\* exactly one notification, addressed to the price entry's submitter with
\* category SYSTEM, in the stretch before its report write, and none for
\* anybody in its report write.
C15_OneSystemNotification ==
  [][\A w \in DOMAIN workers :
       /\ \A act \in {"dismiss", "warning", "ban"} :
            EscalateStep(w, act)
              => /\ notifications (+) Created = notifications'
                 /\ BagCardinality(Created) = 1
                 /\ \A n \in BagToSet(Created) :
                      /\ n.user_id = Submitter(w)
                      /\ n.category = "system"
       /\ (workers[w].pc = "write_report" /\ workers'[w].pc = "idle")
            => notifications' = notifications]_vars

\* one notification for each of the three branches, all to the submitter
C15_Witness ==
  /\ BagToSet(notifications) =
       { Notification(1, "Price Submission Reported"),
         Notification(1, "Report Dismissed"),
         Notification(1, "Warning Issued"),
         Notification(1, "Account Banned") }
  /\ CopiesIn(Notification(1, "Report Dismissed"), notifications) = 1
  /\ CopiesIn(Notification(1, "Warning Issued"), notifications) = 1
  /\ CopiesIn(Notification(1, "Account Banned"), notifications) = 1
  /\ \A w \in DOMAIN workers : workers[w].pc = "idle"

\* C20: every report that is REVIEWED or DISMISSED carries a resolution
\* action.
C20_ResolvedHasAction ==
  \A r \in ReportIds :
    Resolved(r) => reports[r].action \in {"dismissed", "warned", "banned"}

\* C13: a user's warning_count changes only in the warning branch of a
\* resolution against one of that user's price entries, and then by +1; no
\* other step of any handler (dismiss, ban, fallback, report creation, price
\* submission, profile update, broadcast) changes it.
C13_CountOnlyByWarning ==
  [][\A u \in UserIds :
       users'[u].warning_count # users[u].warning_count
         => /\ users'[u].warning_count = users[u].warning_count + 1
            /\ \E w \in DOMAIN workers :
                 EscalateStep(w, "warning") /\ Submitter(w) = u]_vars

\* user 1 was warned once, updated the profile afterwards or was reached by
\* a broadcast, and a second submission and a report on it went through
C13_Witness ==
  /\ users[1].warning_count = 1
  /\ warned[1] = 1
  /\ users[1].idle_days > BanDays
  /\ BagIn(Notification(1, "Warning Issued"), notifications)
  /\ BagIn(Notification(1, "Announcement"), notifications)
  /\ \E r \in ReportIds : reports[r].action = "warned"

\* the step is the automatic unban of u: a price submission is accepted
\* while u's last update is more than BanDays days old
AutoUnbanStep(u) ==
  /\ users[u].idle_days > BanDays
  /\ \E w \in DOMAIN workers :
       workers[w].pc = "idle" /\ workers'[w].pc = "pe_insert"

\* C14: a BANNED user gets a status other than BANNED only by the automatic
\* unban of a price submission after 30 days without update.
C14_OnlyAutoUnban ==
  [][\A u \in UserIds :
       (users[u].status = "BANNED" /\ users'[u].status # "BANNED")
         => AutoUnbanStep(u)]_vars

\* the SYSTEM notifications addressed to u
SystemNotificationsTo(u) ==
  LET rows == {n \in BagToSet(notifications) :
                 n.user_id = u /\ n.category = "system"}
  IN BagCardinality([n \in rows |-> CopiesIn(n, notifications)])

\* User 1 (CONTRIBUTOR, no warning) submitted entry e, a report r against
\* it was created and resolved with action=warning, and nothing else was
\* issued.
EndToEnd(e, r) ==
  /\ \A w \in DOMAIN workers : workers[w].pc = "idle"
  /\ ledger[e].exists /\ ledger[e].submittedBy = 1
  /\ \A e2 \in EntryIds \ {e} : ~ledger[e2].exists
  /\ reports[r].exists /\ reports[r].priceEntryId = e
  /\ \A r2 \in ReportIds \ {r} : ~reports[r2].exists
  /\ budget = AcctCmds - 1
  /\ warned[1] = 1
  /\ users[1].role = "CONTRIBUTOR"
  /\ users[2] = Registered("USER")

\* C16: after the end-to-end scenario the report is REVIEWED with action
\* "warned", the submitter's warning_count is 1 and exactly one SYSTEM
\* notification addressed to the submitter exists.
C16_EndToEnd ==
  \A e \in EntryIds, r \in ReportIds :
    EndToEnd(e, r)
      => /\ reports[r].status = "REVIEWED"
         /\ reports[r].action = "warned"
         /\ users[1].warning_count = 1
         /\ SystemNotificationsTo(1) = 1

\* C17: when the submitter's notification cannot be created in a dismiss,
\* warning or ban resolution, the command still completes: once it has
\* ended, the report is REVIEWED or DISMISSED.
C17_NotifyFailureTolerated ==
  \A r \in ReportIds :
    ( /\ notify_failed[r]
      /\ \A w \in DOMAIN workers : workers[w].rid # r )
    => Resolved(r)

\* w's update_one on the report fails in a warning or ban resolution: the
\* command ends and the report does not have what the command was to write
WriteFailStep(w) ==
  LET me == workers[w] IN
  /\ me.pc = "write_report"
  /\ me.action \in {"warning", "ban"}
  /\ user_commits[me.rid]
  /\ workers'[w].pc = "idle"
  /\ reports' = reports
  /\ reports[me.rid].status # me.wstatus \/ reports[me.rid].action # me.waction

\* C18: when the report write of a warning or ban resolution fails after
\* the user-side commit, a log record for the report is written before the
\* command ends.
C18_ReconciliationLogged ==
  [][\A w \in DOMAIN workers :
       WriteFailStep(w) =>
         BagIn([event |-> "reconcile", id |-> workers[w].rid, user |-> 0],
               log')]_vars

\* C19: a resolution command whose action is present and is not dismiss,
\* warning or ban is rejected before any write: no step of it changes a
\* report, a user or the notifications.
C19_InvalidActionRejected ==
  [][\A w \in DOMAIN workers :
       ( /\ workers[w].pc # "idle"
         /\ workers[w].rid # 0
         /\ workers[w].action \notin {"none", "dismiss", "warning", "ban"}
         /\ workers'[w] # workers[w] )
         => UNCHANGED <<reports, users, notifications>>]_vars

\* the insert_one of create_report by worker w
CreateStep(w) ==
  workers[w].pc = "idle" /\ workers'[w].pc = "cr_find_entry"

\* C21: every report is in status PENDING immediately after create_report,
\* whatever status the request payload carries.
C21_CreatedPending ==
  [][\A w \in DOMAIN workers :
       CreateStep(w) => reports'[workers'[w].rid].status = "PENDING"]_vars

\* the fan-out of a price-entry write by worker w
AlertStep(w) == workers[w].pc = "pe_alerts" /\ workers'[w].pc = "reply"

\* the PRICE notifications the step creates for user u
AlertsCreated(u) == CopiesIn(PriceAlert(u), Created)

\* C23: for one price-entry write the fan-out creates at most one PRICE
\* notification per user, whatever rows create_fav_watch has left in the
\* fav_watch table.
C23_OnePerRecipient ==
  [][\A w \in DOMAIN workers :
       AlertStep(w) => \A u \in UserIds : AlertsCreated(u) <= 1]_vars

\* the users with a fav_watch row for the shop
Subscribers(shop) == {f.user_id : f \in Watchers(shop)}

\* the insert_one of a write without a shop reference
PlainInsertStep(w) ==
  workers[w].pc = "pe_insert" /\ workers'[w].pc = "reply"

\* C22: the fan-out of a successful write with a shop reference, when
\* nothing in it fails, creates one PRICE notification for each user who
\* watches the shop and none for any other user, and every notification it
\* creates has category PRICE; a write without a shop reference creates no
\* notification.
C22_FanOutComplete ==
  [][\A w \in DOMAIN workers :
       /\ (AlertStep(w) /\ log' = log) =>
            /\ \A u \in UserIds :
                 AlertsCreated(u) =
                   IF u \in Subscribers(workers[w].shopId) THEN 1 ELSE 0
            /\ \A n \in BagToSet(Created) : n.category = "price"
       /\ PlainInsertStep(w) => notifications' = notifications]_vars

\* the step writes the record to the log
Logged(rec) == CopiesIn(rec, log') > CopiesIn(rec, log)

\* the step logs that the notification of user u could not be created
FailedFor(shop, u) == Logged(RowFailed(shop, u)) \/ Logged(AlertsFailed(shop, u))

\* C24: in a fan-out in which the notification of one recipient fails, every
\* other subscriber of the shop ends with a notification persisted.
C24_IndependentRecipients ==
  [][\A w \in DOMAIN workers, u \in UserIds :
       (AlertStep(w) /\ FailedFor(workers[w].shopId, u)) =>
         \A v \in Subscribers(workers[w].shopId) \ {u} :
           AlertsCreated(v) >= 1]_vars

\* C25: whatever happens in the fan-out, the write that triggered it answers
\* 200 and its entry stays in the ledger, and a fan-out that leaves a
\* fav_watch row of the shop without its notification writes a log record.
C25_FanOutNeverFailsWrite ==
  [][\A w \in DOMAIN workers :
       AlertStep(w) =>
         /\ workers'[w].code = "200"
         /\ ledger' = ledger
         /\ ledger'[workers[w].peid].exists
         /\ Created # AlertsFor(Watchers(workers[w].shopId)) =>
              BagCardinality(log') > BagCardinality(log)]_vars

\* a write whose fan-out failed for user 2 has answered 200: its entry is
\* in the ledger, the failure is in the log and no notification exists
C25_Witness ==
  \E w \in DOMAIN workers, e \in EntryIds :
    /\ workers[w].pc = "reply" /\ workers[w].code = "200"
    /\ ledger[e].exists
    /\ Watchers(2) # {}
    /\ log = SetToBag({AlertsFailed(2, 2)})
    /\ notifications = EmptyBag

\* the one step of broadcast_system_announcement: it is the only request
\* that answers without a caller
BroadcastStep(w) ==
  /\ workers[w].pc = "idle"
  /\ workers'[w].pc = "reply"
  /\ workers'[w].caller = 0

\* C26: a broadcast that succeeds creates one SYSTEM notification with the
\* title of the broadcast for each user whose status is ACTIVE, nothing for
\* a BANNED or PENDING user and nothing else, and notifications_created is
\* the number of ACTIVE users.
C26_BroadcastToActive ==
  [][\A w \in DOMAIN workers :
       (BroadcastStep(w) /\ workers'[w].code = "200") =>
         /\ \A u \in UserIds :
              CopiesIn([user_id |-> u, title |-> "Announcement",
                        category |-> "system"], Created)
                = IF users[u].status = "ACTIVE" THEN 1 ELSE 0
         /\ BagCardinality(Created)
              = Cardinality({u \in UserIds : users[u].status = "ACTIVE"})
         /\ workers'[w].created
              = Cardinality({u \in UserIds : users[u].status = "ACTIVE"})]_vars

\* the first broadcast went to user 1 alone while user 2 was PENDING
C26_Witness ==
  \E w \in DOMAIN workers :
    /\ workers[w].pc = "reply" /\ workers[w].code = "200"
    /\ workers[w].caller = 0 /\ workers[w].created = 1
    /\ users[1].status = "ACTIVE" /\ users[2].status = "PENDING"
    /\ notifications = SetToBag({Notification(1, "Announcement")})

\* C27: a broadcast issued when no user is ACTIVE is answered with an error
\* and creates no notification.
C27_EmptyBroadcastRejected ==
  [][\A w \in DOMAIN workers :
       (BroadcastStep(w) /\ \A u \in UserIds : users[u].status # "ACTIVE") =>
         /\ workers'[w].code = "404"
         /\ notifications' = notifications]_vars

\* a broadcast was answered 404 while one user is BANNED and one PENDING
C27_Witness ==
  \E w \in DOMAIN workers :
    /\ workers[w].pc = "reply" /\ workers[w].code = "404"
    /\ workers[w].caller = 0
    /\ users[1].status = "BANNED" /\ users[2].status = "PENDING"
    /\ notifications = EmptyBag

\* create_price_entry called by user u runs its checks in worker w
SubmitStep(w, u) ==
  /\ workers[w].pc = "idle"
  /\ workers'[w].pc \in {"pe_insert", "reply"}
  /\ workers'[w].caller = u

\* C28: when a BANNED user whose row was last updated more than BanDays days
\* ago calls create_price_entry, the call sets the user to ACTIVE and, if the
\* role permits, goes on to the insert.
C28_AutoUnban ==
  [][\A w \in DOMAIN workers, u \in UserIds :
       ( /\ SubmitStep(w, u)
         /\ users[u].status = "BANNED"
         /\ users[u].idle_days > BanDays ) =>
         /\ users'[u].status = "ACTIVE"
         /\ MaySubmit(users[u]) => workers'[w].pc = "pe_insert"]_vars

\* the insert_one of create_price_entry by worker w
InsertStep(w) ==
  workers[w].pc = "pe_insert" /\ workers'[w].pc # "pe_insert"

\* the caller is BANNED and the ban has not expired, or has role USER
MustNotSubmit(u) ==
  \/ users[u].status = "BANNED" /\ users[u].idle_days <= BanDays
  \/ users[u].role = "USER"

\* C29: when an entry is inserted, its caller has role CONTRIBUTOR, RETAILER
\* or ADMIN and is not BANNED; a submission by a user who is BANNED with an
\* unexpired ban or who has role USER is answered with an error and leaves
\* the ledger and the notifications as they were.
C29_SubmitterAllowed ==
  [][\A w \in DOMAIN workers :
       /\ InsertStep(w) =>
            /\ users[workers[w].caller].role
                 \in {"CONTRIBUTOR", "RETAILER", "ADMIN"}
            /\ users[workers[w].caller].status # "BANNED"
       /\ \A u \in UserIds :
            (SubmitStep(w, u) /\ MustNotSubmit(u)) =>
              /\ workers'[w].pc = "reply"
              /\ workers'[w].code \in {"403", "500"}
              /\ ledger' = ledger
              /\ notifications' = notifications]_vars

\* update_price_entry or delete_price_entry called by user u for entry e
\* runs its find_one and its checks in worker w
EntryCallStep(w, e, u) ==
  /\ workers[w].pc = "idle"
  /\ workers'[w].pc \in {"reply", "pu_write", "delete_write"}
  /\ workers'[w].peid = e
  /\ workers'[w].caller = u

\* C30: an update_price_entry or delete_price_entry call by a user other
\* than the stored submitter of the entry is answered 403 and the ledger
\* stays as it was; an entry changes or disappears only in the write of a
\* call made by its stored submitter.
C30_OnlySubmitterModifies ==
  [][/\ \A w \in DOMAIN workers, e \in EntryIds, u \in UserIds :
          ( /\ EntryCallStep(w, e, u)
            /\ ledger[e].exists
            /\ ledger[e].submittedBy # u ) =>
            /\ workers'[w].pc = "reply"
            /\ workers'[w].code = "403"
            /\ ledger' = ledger
     /\ \A e \in EntryIds :
          (ledger[e].exists /\ ledger'[e] # ledger[e]) =>
            \E w \in DOMAIN workers :
              /\ workers[w].pc \in {"pu_write", "delete_write"}
              /\ workers[w].peid = e
              /\ workers[w].caller = ledger[e].submittedBy]_vars

\* user 1 asked to change or delete an entry whose stored submitter is
\* user 2 and was answered 403
C30_Witness ==
  \E w \in DOMAIN workers, e \in EntryIds :
    /\ workers[w].pc = "reply" /\ workers[w].code = "403"
    /\ workers[w].peid = e /\ workers[w].caller = 1
    /\ ledger[e].exists /\ ledger[e].submittedBy = 2

\* C31: the submittedBy.id of a price entry never changes, whatever
\* update_price_entry calls are made for it and whatever they carry.
C31_OwnershipNeverTransfers ==
  [][\A e \in EntryIds :
       ledger[e] # NoDocument =>
         ledger'[e].submittedBy = ledger[e].submittedBy]_vars

\* update_price_entry has changed the price of an entry whose stored
\* submitter is user 2
C31_Witness ==
  \E e \in EntryIds :
    /\ ledger[e].exists /\ ledger[e].submittedBy = 2 /\ ledger[e].price = 2

\* C32: every price entry in the ledger has a price above 0.
C32_PositivePrice ==
  \A e \in EntryIds : ledger[e].exists => ledger[e].price > 0

\* create_notification called by user u runs in worker w
NotifyStep(w, u) ==
  /\ workers[w].pc = "idle"
  /\ workers'[w].pc = "reply"
  /\ workers'[w].caller = u

\* C33: a create_notification call by a caller whose role is not ADMIN
\* creates no notification addressed to another user.
C33_NoNotificationForOthers ==
  [][\A w \in DOMAIN workers, u \in UserIds :
       (NotifyStep(w, u) /\ users[u].role # "ADMIN") =>
         \A n \in BagToSet(Created) : n.user_id = u]_vars

\* C34: the warning_info in the response of a warning or ban resolution is
\* what get_user_warning_info returns for the report right after it: the
\* submitter's warning_count and status as the command left them, can_warn
\* = (warning_count < 3 and status # BANNED) and can_ban = (warning_count
\* >= 3).
C34_ResponseMatchesWarningInfo ==
  [][\A w \in DOMAIN workers :
       ( /\ WriteStep(w)
         /\ workers[w].pc = "write_report"
         /\ workers[w].action \in {"warning", "ban"} ) =>
         warning_info(users'[Submitter(w)], workers[w].waction)
           = get_user_warning_info(reports', ledger', users', workers[w].rid)]_vars

\* C35: every fav_watch row has a shop or an item, and no row links a user
\* to a shop that user owns.
C35_FavWatchWellFormed ==
  \A f \in fav_watch :
    /\ f.shop_id # 0 \/ f.item_id # 0
    /\ f.shop_id # 0 => shop_owner[f.shop_id] # f.user_id

\* user 1, who has a favorite, asked to watch shop 1, which user 1 owns, or
\* sent a payload with neither key, and was refused
C35_Witness ==
  \E w \in DOMAIN workers :
    /\ workers[w].pc = "reply" /\ workers[w].code \in {"400", "403"}
    /\ workers[w].caller = 1 /\ workers[w].peid = 0
    /\ \E f \in fav_watch : f.user_id = 1

\* the price entry of report r or the submitter stored with it is gone
Unresolved(r) ==
  LET e == reports[r].priceEntryId IN
  ~(e \in EntryIds /\ ledger[e].exists /\ UserFound(ledger[e].submittedBy))

C37_ThresholdMeansBanned ==
  \A u \in UserIds :
    (users[u].exists /\ users[u].warning_count >= BanThreshold) =>
      users[u].status = "BANNED"

\* C38: the entry written by create_price_entry carries the id of the
\* authenticated caller as its submittedBy.
C38_SubmitterIsCaller ==
  [][\A w \in DOMAIN workers :
       InsertStep(w) =>
         /\ ledger'[NextEntryId].exists
         /\ ledger'[NextEntryId].submittedBy = workers[w].caller]_vars

\* C39: a report's stored action agrees with its status: "dismissed" only
\* with DISMISSED, "warned" and "banned" only with REVIEWED.
C39_ActionAgreesWithStatus ==
  \A r \in ReportIds :
    reports[r].exists =>
      /\ reports[r].action = "dismissed" => reports[r].status = "DISMISSED"
      /\ reports[r].action \in {"warned", "banned"} =>
           reports[r].status = "REVIEWED"

====
